---- MODULE Spec2Model ----
(***************************************************************************)
(* A model of gallery-dl's download pipeline (gallery_dl/download.py) and  *)
(* of its path manager, download archive, predicates, range utility and    *)
(* formatter (gallery_dl/util.py).                                         *)
(*                                                                         *)
(* Text is modelled as a sequence of tokens: a path "/tmp/x/n.jpg" is      *)
(* <<"/", "tmp", "/", "x", "/", "n", ".", "jpg">>, a URL "http://h/1" is   *)
(* <<"http", ":", "//h/1">>.  The empty string is the empty sequence.      *)
(***************************************************************************)
EXTENDS Integers, Sequences, FiniteSets, TLC

VARIABLES
    \* ---- download.py ----
    overrides,   \* the "regex*" rules of the configuration, in configured order
    catalog,     \* the extractor catalog, in directory-listing order
    resolved,    \* the result of the last find_pattern_match call
    modules,     \* DownloadManager.modules: the schemes whose module is cached
    imports,     \* every importlib.import_module(".downloader."+scheme) call made
    job,         \* the DownloadJob being run by DownloadManager.add, or NoJob
    njobs,       \* the number of DownloadJob objects constructed so far
    instances,   \* every Downloader object constructed so far
    dirs,        \* the directories on disk
    disk,        \* the files on disk: path -> content
    archive,     \* the entries of the download archive
    log,         \* what the job printed and which downloader calls it made
    processed,   \* every message a job has taken from its extractor
    results,     \* how each DownloadManager.add call ended
    \* ---- util.py ----
    pf,          \* the PathFormat object
    stage,       \* where the current item is in its keywords/part/write cycle
    nitems,      \* the number of items PathFormat has been given so far
    last,        \* the last PathFormat call: its name, argument and outcome
    rp,          \* the RangePredicate object: ranges, index, lower, upper
    urls,        \* UniquePredicate.urls
    preds,       \* the predicate list given to build_predicate
    calls,       \* every call made on the object under study, with its outcome
    input,       \* the argument a function of util.py is applied to
    output       \* what the function returned, or NotRun

vars == <<overrides, catalog, resolved, modules, imports, job, njobs, instances,
          dirs, disk, archive, log, processed, results,
          pf, stage, nitems, last,
          rp, urls, preds, calls, input, output>>

dlvars == <<modules, imports, job, njobs, instances, dirs, disk, archive,
            log, processed, results>>

pfvars == <<pf, stage, nitems, last>>

utilvars == <<rp, urls, preds, calls, input, output>>

-----------------------------------------------------------------------------
(* Bounds of the model *)

MaxJobs == 2
MaxMsgs == 3

-----------------------------------------------------------------------------
(* Text, paths and templates *)

Sep == "/"

Last(s) == s[Len(s)]

IsPrefix(p, s) == Len(p) <= Len(s) /\ SubSeq(s, 1, Len(p)) = p

\* os.path.join(a, b)
Join2(a, b) ==
    IF Len(b) > 0 /\ b[1] = Sep THEN b
    ELSE IF a = <<>> \/ Last(a) = Sep THEN a \o b
    ELSE a \o <<Sep>> \o b

\* A template is a sequence of items: a literal token or a replacement field.
L(tok) == [lit |-> tok, field |-> ""]
F(key) == [lit |-> "", field |-> key]

\* str.format(**kw) / str.format_map(kw): every field is replaced by the value of
\* its key (a KeyError on a missing key is outside the model: the messages of
\* the model carry every key their templates use).
RECURSIVE StrFormat(_, _)
StrFormat(fmt, kw) ==
    IF fmt = <<>> THEN <<>>
    ELSE (IF Head(fmt).field = "" THEN <<Head(fmt).lit>> ELSE kw[Head(fmt).field])
         \o StrFormat(Tail(fmt), kw)

-----------------------------------------------------------------------------
(* download.py: the configuration the model runs under *)

\* DownloadManager.get_base_directory: opts.dest is unset, the fallback is used
BaseDirectory == <<Sep, "tmp", Sep>>

\* A pattern is represented by the set of URLs re.match accepts for it.
GalleryA == <<"http", ":", "//site/g">>
GalleryB == <<"http", ":", "//other/g">>
GalleryN == <<"http", ":", "//nowhere/g">>
AddUrls  == {GalleryA, GalleryN}

\* info["filename"], info["directory"] (joined by os.path.join) of an extractor
\* module, and the archive template of its category
FilenameFmt  == <<F("name"), L("."), F("extension")>>
DirectoryFmt == <<F("category"), L(Sep), F("title")>>
ArchiveFmt   == <<F("name")>>

\* The messages an extractor may yield.
Msg(t, u, k, v) == [type |-> t, url |-> u, kw |-> k, val |-> v]
NoKw == [none |-> <<>>]
KwP   == [name |-> <<"n1">>, extension |-> <<"jpg">>]
KwQ   == [name |-> <<"n2">>, extension |-> <<"jpg">>]
KwAbs == [name |-> <<Sep, "e">>, extension |-> <<"jpg">>]
KwD1  == [category |-> <<"site">>, title |-> <<"t1">>]
KwD2  == [category |-> <<"site">>, title |-> <<"t2">>]
UrlMsgs ==
    { Msg("Url", <<"http", ":", "//h/1">>, KwP, 0),
      Msg("Url", <<"https", ":", "//h/2">>, KwQ, 0),
      Msg("Url", <<"h/3">>, KwP, 0),
      Msg("Url", <<"ftp", ":", "//h/4">>, KwAbs, 0) }
DirectoryMsgs == { Msg("Directory", <<>>, KwD1, 0), Msg("Directory", <<>>, KwD2, 0) }
HeadersMsgs   == { Msg("Headers", <<>>, NoKw, 1) }
CookiesMsgs   == { Msg("Cookies", <<>>, NoKw, 2) }
VersionMsgs   == { Msg("Version", <<>>, NoKw, 1), Msg("Version", <<>>, NoKw, 2) }

\* download(url, path) -> the number of retries
Tries == {0, 1}

NoJob == [id |-> 0]

-----------------------------------------------------------------------------
(* download.py: ExtractorFinder *)

NoMatch == [name |-> "None", rule |-> <<>>]

\* re.match(pattern, url)
ReMatch(pattern, url) == url \in pattern

\* find_pattern_match, first loop: the configured "regex*" rules, in order
RECURSIVE FindOverride(_, _, _)
FindOverride(rules, i, url) ==
    IF i > Len(rules) THEN NoMatch
    ELSE IF ReMatch(rules[i].pattern, url)
         THEN [name |-> rules[i].category, rule |-> <<"config", i>>]
         ELSE FindOverride(rules, i + 1, url)

\* find_pattern_match, inner loop of the second loop: the patterns of one entry
RECURSIVE FindPattern(_, _, _)
FindPattern(patterns, j, url) ==
    IF j > Len(patterns) THEN 0
    ELSE IF ReMatch(patterns[j], url) THEN j
    ELSE FindPattern(patterns, j + 1, url)

\* find_pattern_match, second loop: the catalog entries, in enumeration order
RECURSIVE FindCatalog(_, _, _)
FindCatalog(entries, i, url) ==
    IF i > Len(entries) THEN NoMatch
    ELSE LET j == FindPattern(entries[i].patterns, 1, url)
         IN  IF j # 0
             THEN [name |-> entries[i].name, rule |-> <<"catalog", i, j>>]
             ELSE FindCatalog(entries, i + 1, url)

\* A resolver that asks the catalog before the configured rules.
FindCatalogFirst(rules, entries, url) ==
    LET c == FindCatalog(entries, 1, url)
    IN  IF c # NoMatch THEN c ELSE FindOverride(rules, 1, url)

\* ExtractorFinder.find_pattern_match
FindPatternMatch(rules, entries, url) ==
    LET o == FindOverride(rules, 1, url)
    IN  IF o # NoMatch THEN o ELSE FindCatalog(entries, 1, url)

-----------------------------------------------------------------------------
(* download.py: DownloadJob *)

Http == <<"http">>

\* str.find: the first index of tok in s from i on, 0 when there is none
RECURSIVE Find(_, _, _)
Find(s, tok, i) ==
    IF i > Len(s) THEN 0
    ELSE IF s[i] = tok THEN i
    ELSE Find(s, tok, i + 1)

\* A scheme computation that leaves "https" as it is.
SchemeRaw(url) ==
    LET pos == Find(url, ":", 1)
    IN  IF pos # 0 THEN SubSeq(url, 1, pos - 1) ELSE Http

\* get_downloader: the scheme a URL's downloader is cached under
Scheme(url) ==
    LET pos == Find(url, ":", 1)
        scheme == IF pos # 0 THEN SubSeq(url, 1, pos - 1) ELSE Http
    IN  IF scheme = <<"https">> THEN Http ELSE scheme

\* DownloadJob.get_downloader(url) of the running job: the instance it returns
\* and the caches, instances and imports it leaves behind
GetDownloader(url) ==
    LET scheme == Scheme(url)
        hit    == scheme \in DOMAIN job.downloaders
        newid  == Len(instances) + 1
    IN  [ inst        |-> IF hit THEN job.downloaders[scheme] ELSE newid,
          downloaders |-> IF hit THEN job.downloaders
                          ELSE (scheme :> newid) @@ job.downloaders,
          instances   |-> IF hit THEN instances
                          ELSE Append(instances, [job |-> job.id, scheme |-> scheme,
                                                  headers |-> 0, cookies |-> 0]),
          modules     |-> IF hit THEN modules ELSE modules \cup {scheme},
          imports     |-> IF hit \/ scheme \in modules THEN imports
                          ELSE Append(imports, scheme) ]

\* os.path.exists
Exists(path) == path \in DOMAIN disk \/ path \in dirs

\* the directories os.makedirs(path) leaves on disk
MakeDirs(path) ==
    { SubSeq(path, 1, i) : i \in { k \in 1..Len(path) :
          path[k] # Sep /\ (k = Len(path) \/ path[k + 1] = Sep) } }

\* DownloadArchive.keygen: (category + archive_fmt).format_map(kwdict)
ArchiveKey(category, kw) == <<category>> \o StrFormat(ArchiveFmt, kw)

Ev(m, e, p, u, i, n) ==
    [job |-> job.id, m |-> m, ev |-> e, path |-> p, url |-> u, inst |-> i, n |-> n]

\* A download that reports every success as a first-try success.
DownloadEventsNoTries(m, url, path, inst, tries) ==
    << Ev(m, "start", path, <<>>, 0, 0),
       Ev(m, "download", path, url, inst, tries),
       Ev(m, "success", path, <<>>, 0, 0) >>

\* DownloadJob.download, lines 96-98: print_start, downloader.download, print_success
DownloadEvents(m, url, path, inst, tries) ==
    << Ev(m, "start", path, <<>>, 0, 0),
       Ev(m, "download", path, url, inst, tries),
       Ev(m, "success", path, <<>>, 0, tries) >>

Running == job # NoJob /\ Len(processed) < MaxMsgs

Taken(msg, path) ==
    Append(processed,
           [ job |-> job.id, msg |-> msg, path |-> path,
             existed |-> Exists(path),
             archived |-> msg.type = "Url" /\ ArchiveKey(job.category, msg.kw) \in archive ])

\* DownloadManager.add(url), up to the start of DownloadJob.run's loop
Add(url) ==
    /\ job = NoJob
    /\ njobs < MaxJobs
    /\ LET r == FindPatternMatch(overrides, catalog, url)
       IN  /\ resolved' = [url |-> url, match |-> r]
           /\ njobs' = njobs + 1
           /\ IF r = NoMatch
              THEN \* get_for_url prints and returns None; __init__ cannot unpack it
                   /\ log' = Append(log, [job |-> njobs + 1, m |-> 0, ev |-> "mismatch",
                                          path |-> <<>>, url |-> url, inst |-> 0, n |-> 0])
                   /\ results' = Append(results, [job |-> njobs + 1, url |-> url,
                                                  outcome |-> "TypeError"])
                   /\ job' = NoJob
              ELSE /\ job' = [ id |-> njobs + 1, url |-> url, category |-> r.name,
                               directory |-> BaseDirectory,
                               downloaders |-> <<>>,
                               filename_fmt |-> FilenameFmt,
                               directory_fmt |-> DirectoryFmt ]
                   /\ UNCHANGED <<log, results>>
    /\ UNCHANGED <<overrides, catalog, modules, imports, instances, dirs, disk,
                   archive, processed>>
    /\ UNCHANGED <<pfvars, utilvars>>

\* run: msg[0] == Message.Url, DownloadJob.download(msg)
Download(msg) ==
    /\ Running
    /\ LET filename == StrFormat(job.filename_fmt, msg.kw)
           path     == Join2(job.directory, filename)
           m        == Len(processed) + 1
       IN  /\ processed' = Taken(msg, path)
           /\ IF Exists(path)
              THEN /\ log' = Append(log, Ev(m, "skip", path, <<>>, 0, 0))
                   /\ UNCHANGED <<job, instances, modules, imports, disk>>
              ELSE LET g == GetDownloader(msg.url)
                   IN  /\ job' = [job EXCEPT !.downloaders = g.downloaders]
                       /\ instances' = g.instances
                       /\ modules' = g.modules
                       /\ imports' = g.imports
                       /\ \E tries \in Tries :
                              log' = log \o DownloadEvents(m, msg.url, path, g.inst, tries)
                       \* downloader.download(url, path) stores the file at path
                       /\ disk' = (path :> 1) @@ disk
    /\ UNCHANGED <<overrides, catalog, resolved, njobs, dirs, archive, results>>
    /\ UNCHANGED <<pfvars, utilvars>>

\* run: msg[0] == Message.Headers
Headers(msg) ==
    /\ Running
    /\ LET g == GetDownloader(<<"http", ":">>)
           m == Len(processed) + 1
       IN  /\ processed' = Taken(msg, <<>>)
           /\ job' = [job EXCEPT !.downloaders = g.downloaders]
           /\ instances' = [g.instances EXCEPT ![g.inst].headers = msg.val]
           /\ modules' = g.modules
           /\ imports' = g.imports
           /\ log' = Append(log, Ev(m, "set_headers", <<>>, <<>>, g.inst, msg.val))
    /\ UNCHANGED <<overrides, catalog, resolved, njobs, dirs, disk, archive, results>>
    /\ UNCHANGED <<pfvars, utilvars>>

\* run: msg[0] == Message.Cookies
Cookies(msg) ==
    /\ Running
    /\ LET g == GetDownloader(<<"http", ":">>)
           m == Len(processed) + 1
       IN  /\ processed' = Taken(msg, <<>>)
           /\ job' = [job EXCEPT !.downloaders = g.downloaders]
           /\ instances' = [g.instances EXCEPT ![g.inst].cookies = msg.val]
           /\ modules' = g.modules
           /\ imports' = g.imports
           /\ log' = Append(log, Ev(m, "set_cookies", <<>>, <<>>, g.inst, msg.val))
    /\ UNCHANGED <<overrides, catalog, resolved, njobs, dirs, disk, archive, results>>
    /\ UNCHANGED <<pfvars, utilvars>>

\* run: msg[0] == Message.Directory, DownloadJob.set_directory(msg)
SetDirectory(msg) ==
    /\ Running
    /\ LET directory == Join2(BaseDirectory, StrFormat(job.directory_fmt, msg.kw))
           m == Len(processed) + 1
       IN  /\ processed' = Taken(msg, directory)
           /\ IF \E d \in MakeDirs(directory) : d \in DOMAIN disk
              THEN \* os.makedirs: a file is in the way
                   /\ results' = Append(results, [job |-> job.id, url |-> job.url,
                                                  outcome |-> "FileExistsError"])
                   /\ job' = NoJob
                   /\ UNCHANGED <<dirs, log>>
              ELSE /\ job' = [job EXCEPT !.directory = directory]
                   /\ dirs' = dirs \cup MakeDirs(directory)
                   /\ log' = Append(log, Ev(m, "makedirs", directory, <<>>, 0, 0))
                   /\ UNCHANGED results
    /\ UNCHANGED <<overrides, catalog, resolved, modules, imports, njobs, instances,
                   disk, archive>>
    /\ UNCHANGED <<pfvars, utilvars>>

\* run: msg[0] == Message.Version
Version(msg) ==
    /\ Running
    /\ processed' = Taken(msg, <<>>)
    /\ IF msg.val # 1
       THEN \* the operand of raise reads self.info.category, and info is a dict
            /\ results' = Append(results, [job |-> job.id, url |-> job.url,
                                           outcome |-> "AttributeError"])
            /\ job' = NoJob
       ELSE UNCHANGED <<results, job>>
    /\ UNCHANGED <<overrides, catalog, resolved, modules, imports, njobs, instances,
                   dirs, disk, archive, log>>
    /\ UNCHANGED <<pfvars, utilvars>>

\* run: the extractor is exhausted, run() and add() return
Finish ==
    /\ job # NoJob
    /\ results' = Append(results, [job |-> job.id, url |-> job.url, outcome |-> "returned"])
    /\ job' = NoJob
    /\ UNCHANGED <<overrides, catalog, resolved, modules, imports, njobs, instances,
                   dirs, disk, archive, log, processed>>
    /\ UNCHANGED <<pfvars, utilvars>>

PfIdle ==
    /\ pf = [none |-> TRUE]
    /\ stage = "none"
    /\ nitems = 0
    /\ last = [op |-> "none", arg |-> <<>>, res |-> "None"]

\* no function of util.py has been applied yet
NotRun == [none |-> TRUE]

\* no predicate has been built and no function of util.py is under study
UtilIdle ==
    /\ rp = [none |-> TRUE]
    /\ urls = {}
    /\ preds = <<>>
    /\ calls = <<>>
    /\ input = NotRun
    /\ output = NotRun

Init ==
    /\ overrides = << [category |-> "ovr", pattern |-> {GalleryB}] >>
    /\ catalog = << [name |-> "site", patterns |-> << {GalleryA} >>] >>
    /\ resolved = [url |-> <<>>, match |-> NoMatch]
    /\ modules = {}
    /\ imports = <<>>
    /\ job = NoJob
    /\ njobs = 0
    /\ instances = <<>>
    /\ dirs = { <<Sep, "tmp">> }
    /\ disk = (<<Sep, "tmp", Sep, "n1", ".", "jpg">> :> 1)
    /\ archive = { <<"site", "n1">> }
    /\ log = <<>>
    /\ processed = <<>>
    /\ results = <<>>
    /\ PfIdle
    /\ UtilIdle

Next ==
    \/ \E url \in AddUrls : Add(url)
    \/ \E msg \in UrlMsgs : Download(msg)
    \/ \E msg \in HeadersMsgs : Headers(msg)
    \/ \E msg \in CookiesMsgs : Cookies(msg)
    \/ \E msg \in DirectoryMsgs : SetDirectory(msg)
    \/ \E msg \in VersionMsgs : Version(msg)
    \/ Finish

Spec == Init /\ [][Next]_vars

-----------------------------------------------------------------------------
(* The resolver on its own: the configuration is written rule by rule, and *)
(* find_pattern_match is applied to it.                                    *)

MaxPatterns == 4

U1 == <<"http", ":", "//a/1">>
U2 == <<"http", ":", "//a/2">>
U3 == <<"http", ":", "//b/3">>
ResolveUrls == {U1, U2, U3}
Patterns    == { {U1}, {U2}, {U1, U2} }
Categories  == {"a", "b"}

RECURSIVE SumLen(_)
SumLen(entries) ==
    IF entries = <<>> THEN 0
    ELSE Len(Head(entries).patterns) + SumLen(Tail(entries))

ConfigSize == Len(overrides) + Len(catalog) + SumLen(catalog)

DlIdle ==
    /\ modules = {}
    /\ imports = <<>>
    /\ job = NoJob
    /\ njobs = 0
    /\ instances = <<>>
    /\ dirs = {}
    /\ disk = <<>>
    /\ archive = {}
    /\ log = <<>>
    /\ processed = <<>>
    /\ results = <<>>

NotResolved == [url |-> <<>>, match |-> NoMatch]

\* a "regex*" key of the configuration
ConfigRule(category, pattern) ==
    /\ ConfigSize < MaxPatterns
    /\ overrides' = Append(overrides, [category |-> category, pattern |-> pattern])
    /\ resolved' = NotResolved
    /\ UNCHANGED <<catalog>>
    /\ UNCHANGED dlvars
    /\ UNCHANGED <<pfvars, utilvars>>

\* an extractor module of the catalog
CatalogEntry(name) ==
    /\ ConfigSize < MaxPatterns
    /\ catalog' = Append(catalog, [name |-> name, patterns |-> <<>>])
    /\ resolved' = NotResolved
    /\ UNCHANGED <<overrides>>
    /\ UNCHANGED dlvars
    /\ UNCHANGED <<pfvars, utilvars>>

\* one more pattern in the info["pattern"] list of the last extractor module
CatalogPattern(pattern) ==
    /\ ConfigSize < MaxPatterns
    /\ catalog # <<>>
    /\ catalog' = [catalog EXCEPT ![Len(catalog)].patterns = Append(@, pattern)]
    /\ resolved' = NotResolved
    /\ UNCHANGED <<overrides>>
    /\ UNCHANGED dlvars
    /\ UNCHANGED <<pfvars, utilvars>>

\* ExtractorFinder.find_pattern_match(url)
Resolve(url) ==
    /\ resolved' = [url |-> url, match |-> FindPatternMatch(overrides, catalog, url)]
    /\ UNCHANGED <<overrides, catalog>>
    /\ UNCHANGED dlvars
    /\ UNCHANGED <<pfvars, utilvars>>

InitResolve ==
    /\ overrides = <<>>
    /\ catalog = <<>>
    /\ resolved = NotResolved
    /\ DlIdle
    /\ PfIdle
    /\ UtilIdle

NextResolve ==
    \/ \E c \in Categories, p \in Patterns : ConfigRule(c, p)
    \/ \E c \in Categories : CatalogEntry(c)
    \/ \E p \in Patterns : CatalogPattern(p)
    \/ \E u \in ResolveUrls : Resolve(u)

SpecResolve == InitResolve /\ [][NextResolve]_vars

-----------------------------------------------------------------------------
(* util.py: PathFormat, with the disk and the download archive it reads *)

MaxItems == 2

\* extractor.config("skip", True): the values the option is given
SkipValues == {"True", "abort", "exit", "False"}

\* extractor.category, filename_fmt, directory_fmt (a list of segments) and
\* config("keywords-default")
PfCategory     == "site"
PfFilenameFmt  == <<F("name"), L("."), F("extension")>>
PfDirectoryFmt == << <<F("category")>> >>
KwDefault      == <<"None">>

\* expand_path(config("base-directory", (".", "gallery-dl")))
PfBaseDirectory == Join2(<<".">>, <<"gallery-dl">>)

\* what the callers of PathFormat pass in
PfDirKws   == { [category |-> <<"site">>] }
PfItemKws  == { [name |-> <<"n">>], [name |-> <<"n">>, extension |-> <<"jpg">>],
                [name |-> <<"m">>, extension |-> <<"jpg">>] }
Extensions == { <<"jpg">>, <<"part">> }
PartDirs   == { <<>>, <<"pd">> }

\* Formatter.vformat for templates of plain fields: a field whose key is
\* missing renders the default value
RECURSIVE Vformat(_, _)
Vformat(fmt, kw) ==
    IF fmt = <<>> THEN <<>>
    ELSE (IF Head(fmt).field = "" THEN <<Head(fmt).lit>>
          ELSE IF Head(fmt).field \in DOMAIN kw THEN kw[Head(fmt).field]
          ELSE KwDefault)
         \o Vformat(Tail(fmt), kw)

\* text.clean_path: the characters illegal in a path component, the separator
\* among them, are removed from a rendered segment
CleanPath(s) == SelectSeq(s, LAMBDA t : t # Sep)

\* os.path.join(base, *segments)
RECURSIVE JoinAll(_, _)
JoinAll(base, segments) ==
    IF segments = <<>> THEN base
    ELSE JoinAll(Join2(base, Head(segments)), Tail(segments))

\* os.path.basename
Basename(path) ==
    LET S == { i \in 1..Len(path) : path[i] = Sep }
    IN  IF S = {} THEN path
        ELSE SubSeq(path, (CHOOSE i \in S : \A j \in S : j <= i) + 1, Len(path))

OsName == "posix"

\* PathFormat.adjust_path
AdjustPath(path) == IF OsName = "nt" THEN <<"\\\\?\\">> \o path ELSE path

\* the skip exception PathFormat.__init__ derives from the skip option
SkipExcSwapped(skip) ==
    IF skip = "abort" THEN "SystemExit"
    ELSE IF skip = "exit" THEN "StopExtraction"
    ELSE "None"

\* PathFormat.__init__, lines 378-385: self._skipexc
SkipExc(skip) ==
    IF skip = "abort" THEN "StopExtraction"
    ELSE IF skip = "exit" THEN "SystemExit"
    ELSE "None"

\* PathFormat.__init__; the field skip keeps the value of the option the
\* object was built from
NewPathFormat(skip) ==
    [ skip |-> skip, delete |-> FALSE, has_extension |-> FALSE, keywords |-> <<>>,
      filename |-> <<>>, directory |-> <<>>, realdirectory |-> <<>>,
      path |-> <<>>, realpath |-> <<>>, temppath |-> <<>>,
      basedirectory |-> PfBaseDirectory,
      skipexc |-> IF skip # "False" THEN SkipExc(skip) ELSE "None",
      exists_replaced |-> (skip = "False") ]

\* PathFormat.build_path applied to the object p
BuildPath(p) ==
    LET filename == CleanPath(Vformat(PfFilenameFmt, p.keywords))
        realpath == p.realdirectory \o <<Sep>> \o filename
    IN  [p EXCEPT !.filename = filename,
                  !.path = p.directory \o <<Sep>> \o filename,
                  !.realpath = realpath,
                  !.temppath = IF p.temppath = <<>> THEN realpath ELSE p.temppath]

\* PathFormat.set_extension(extension, real) applied to the object p
SetExtension(p, extension, real) ==
    BuildPath([p EXCEPT !.has_extension = real,
                        !.keywords = ("extension" :> extension) @@ p.keywords])

\* os.path.exists(path)
PathExists(path) == path \in DOMAIN disk \/ path \in dirs

\* exists() without the test of has_extension
SkipDetectedAnyExtension(p, arch) ==
    \/ PathExists(p.realpath)
    \/ arch /\ ArchiveKey(PfCategory, p.keywords) \in archive

\* PathFormat.exists, lines 395-396: the condition under which a skip is detected
SkipDetected(p, arch) ==
    \/ p.has_extension /\ PathExists(p.realpath)
    \/ arch /\ ArchiveKey(PfCategory, p.keywords) \in archive

Called(op, arg, res) == [op |-> op, arg |-> arg, res |-> res]

PfOther ==
    /\ UNCHANGED <<overrides, catalog, resolved, modules, imports, job, njobs,
                   instances, log, processed, results>>
    /\ UNCHANGED utilvars

\* PathFormat.set_directory(keywords), called between two items
PfSetDirectory(kw) ==
    /\ stage \in {"none", "done"}
    /\ LET segments  == [ i \in 1..Len(PfDirectoryFmt) |->
                              CleanPath(Vformat(PfDirectoryFmt[i], kw)) ]
           joined    == JoinAll(pf.basedirectory, segments)
           directory == IF Last(joined) = Sep
                        THEN SubSeq(joined, 1, Len(joined) - 1) ELSE joined
       IN  /\ pf.directory # directory
           /\ pf' = [pf EXCEPT !.directory = directory,
                               !.realdirectory = AdjustPath(directory)]
           /\ dirs' = dirs \cup MakeDirs(AdjustPath(directory))
    /\ last' = Called("set_directory", <<>>, "None")
    /\ UNCHANGED <<stage, nitems, disk, archive>>
    /\ PfOther

\* PathFormat.set_keywords(keywords): the next item
PfSetKeywords(kw) ==
    /\ stage \in {"none", "done"}
    /\ nitems < MaxItems
    /\ nitems' = nitems + 1
    /\ LET has == "extension" \in DOMAIN kw /\ kw.extension # <<>>
           p   == [pf EXCEPT !.keywords = kw, !.temppath = <<>>, !.has_extension = has]
       IN  pf' = IF has THEN BuildPath(p) ELSE p
    /\ stage' = "keywords"
    /\ last' = Called("set_keywords", <<>>, "None")
    /\ UNCHANGED <<dirs, disk, archive>>
    /\ PfOther

\* PathFormat.set_extension(extension), once the real extension is known
PfSetExtension(extension) ==
    /\ stage \in {"keywords", "part", "written", "direct"}
    /\ ~pf.has_extension
    /\ pf' = SetExtension(pf, extension, TRUE)
    /\ last' = Called("set_extension", <<>>, "None")
    /\ UNCHANGED <<stage, nitems, dirs, disk, archive>>
    /\ PfOther

\* PathFormat.part_enable(part_directory)
PfPartEnable(part_directory) ==
    /\ stage = "keywords"
    /\ LET p == IF pf.has_extension
                THEN [pf EXCEPT !.temppath = pf.realpath \o <<".", "part">>]
                ELSE SetExtension(pf, <<"part">>, FALSE)
       IN  pf' = IF part_directory # <<>>
                 THEN [p EXCEPT !.temppath = Join2(part_directory, Basename(p.temppath))]
                 ELSE p
    /\ stage' = "part"
    /\ last' = Called("part_enable", <<>>, "None")
    /\ UNCHANGED <<nitems, dirs, disk, archive>>
    /\ PfOther

\* PathFormat.open("wb") and the write of the item's content, which is
\* numbered by the item
PfWrite ==
    /\ stage \in {"keywords", "part"}
    /\ pf.temppath # <<>>
    /\ disk' = (pf.temppath :> nitems) @@ disk
    /\ stage' = IF stage = "part" THEN "written" ELSE "direct"
    /\ last' = Called("write", <<>>, "None")
    /\ UNCHANGED <<pf, nitems, dirs, archive>>
    /\ PfOther

\* PathFormat.exists(archive); a caller that is told True goes on to the
\* next item, and a caller that gets an exception stops using the object
PfExists(arch) ==
    /\ stage \in {"keywords", "part", "written", "direct"}
    /\ IF pf.exists_replaced
       THEN \* self.exists = lambda x=None: False
            /\ last' = Called("exists", arch, "False")
            /\ UNCHANGED <<pf, stage>>
       ELSE IF SkipDetected(pf, arch)
       THEN IF pf.skipexc # "None"
            THEN /\ last' = Called("exists", arch, pf.skipexc)
                 /\ stage' = IF pf.skipexc = "SystemExit" THEN "exit" ELSE "abort"
                 /\ UNCHANGED pf
            ELSE /\ pf' = IF pf.has_extension THEN pf
                          ELSE LET p == SetExtension(pf, <<>>, TRUE)
                               IN  IF Last(p.path) = "."
                                   THEN [p EXCEPT !.path = SubSeq(p.path, 1, Len(p.path) - 1)]
                                   ELSE p
                 /\ last' = Called("exists", arch, "True")
                 /\ stage' = "done"
       ELSE /\ last' = Called("exists", arch, "False")
            /\ UNCHANGED <<pf, stage>>
    /\ UNCHANGED <<nitems, dirs, disk, archive>>
    /\ PfOther

\* a downloader marks the item as unwanted: pathfmt.delete = True
PfDiscard ==
    /\ stage \in {"part", "written", "direct"}
    /\ ~pf.delete
    /\ pf' = [pf EXCEPT !.delete = TRUE]
    /\ last' = Called("discard", <<>>, "None")
    /\ UNCHANGED <<stage, nitems, dirs, disk, archive>>
    /\ PfOther

Remove(path) == [ q \in DOMAIN disk \ {path} |-> disk[q] ]

\* A finalize whose copy fallback forgets to delete the temporary file.
FinalizeDiskNoUnlink(p, renamed) ==
    IF renamed THEN (p.realpath :> disk[p.temppath]) @@ Remove(p.temppath)
    ELSE (p.realpath :> disk[p.temppath]) @@ disk

\* PathFormat.finalize, lines 488-495: the disk after os.replace, or after
\* shutil.copyfile and os.unlink when os.replace raised OSError
FinalizeDisk(p, renamed) ==
    IF renamed THEN (p.realpath :> disk[p.temppath]) @@ Remove(p.temppath)
    ELSE (p.realpath :> disk[p.temppath]) @@ Remove(p.temppath)

\* A finalize that leaves the discard flag set.
KeepDelete(p) == p

\* PathFormat.finalize, line 481: self.delete = False
ClearDelete(p) == [p EXCEPT !.delete = FALSE]

\* PathFormat.finalize()
PfFinalize ==
    /\ stage \in {"part", "written", "direct"}
    /\ IF pf.delete
       THEN /\ pf' = ClearDelete(pf)
            /\ IF pf.temppath \in DOMAIN disk
               THEN disk' = Remove(pf.temppath) /\ last' = Called("finalize", "discard", "None")
               ELSE UNCHANGED disk /\ last' = Called("finalize", "discard", "OSError")
       ELSE IF pf.temppath = pf.realpath
       THEN /\ last' = Called("finalize", "same", "None")
            /\ UNCHANGED <<pf, disk>>
       ELSE IF pf.temppath \notin DOMAIN disk
       THEN \* os.replace and shutil.copyfile both raise
            /\ last' = Called("finalize", "missing", "OSError")
            /\ UNCHANGED <<pf, disk>>
       ELSE \E renamed \in BOOLEAN :
            /\ disk' = FinalizeDisk(pf, renamed)
            /\ last' = Called("finalize", IF renamed THEN "replace" ELSE "copy", "None")
            /\ UNCHANGED pf
    /\ stage' = "done"
    /\ UNCHANGED <<nitems, dirs, archive>>
    /\ PfOther

\* DownloadArchive.add(kwdict) for the keywords of the item just finished
PfArchiveAdd ==
    /\ stage = "done"
    /\ last.op = "finalize"
    /\ ArchiveKey(PfCategory, pf.keywords) \notin archive
    /\ archive' = archive \cup { ArchiveKey(PfCategory, pf.keywords) }
    /\ last' = Called("archive_add", <<>>, "None")
    /\ UNCHANGED <<pf, stage, nitems, dirs, disk>>
    /\ PfOther

InitPath ==
    /\ overrides = <<>>
    /\ catalog = <<>>
    /\ resolved = NotResolved
    /\ modules = {}
    /\ imports = <<>>
    /\ job = NoJob
    /\ njobs = 0
    /\ instances = <<>>
    /\ log = <<>>
    /\ processed = <<>>
    /\ results = <<>>
    /\ dirs = {}
    /\ disk = <<>>
    /\ archive = {}
    /\ \E skip \in SkipValues : pf = NewPathFormat(skip)
    /\ stage = "none"
    /\ nitems = 0
    /\ last = Called("none", <<>>, "None")
    /\ UtilIdle

NextPath ==
    \/ \E kw \in PfDirKws : PfSetDirectory(kw)
    \/ \E kw \in PfItemKws : PfSetKeywords(kw)
    \/ \E x \in Extensions : PfSetExtension(x)
    \/ \E d \in PartDirs : PfPartEnable(d)
    \/ PfWrite
    \/ \E arch \in BOOLEAN : PfExists(arch)
    \/ PfDiscard
    \/ PfFinalize
    \/ PfArchiveAdd

SpecPath == InitPath /\ [][NextPath]_vars

-----------------------------------------------------------------------------
(* Claims about the pipeline (download.py) *)

UrlIdx == { k \in 1..Len(processed) : processed[k].msg.type = "Url" }

EventsOf(k) == { i \in 1..Len(log) : log[i].m = k }

Skipped(k) == \E i \in EventsOf(k) : log[i].ev = "skip"

\* the scheme family the specification assigns to a URL
Family(url) ==
    IF \A i \in 1..Len(url) : url[i] # ":" THEN Http
    ELSE IF url[1] \in {"http", "https"} THEN Http
    ELSE <<url[1]>>

\* C1: a Url message whose destination path exists on disk, or whose item is
\* recorded in the download archive, is recorded as a skip for that path, and
\* neither a download call nor a start or success status is made for it.
C1_SkipOnDiskOrArchive ==
    \A k \in UrlIdx :
        (processed[k].existed \/ processed[k].archived) =>
            /\ \E i \in EventsOf(k) :
                   log[i].ev = "skip" /\ log[i].path = processed[k].path
            /\ \A i \in EventsOf(k) : log[i].ev \notin {"start", "download", "success"}

\* C2: a Url message that is not skipped gives exactly the three entries start,
\* download(url, path), success, in this order and for the message's path; the
\* download is made on the downloader of the job for the URL's scheme family,
\* the success status carries the retry count the call returned, and the
\* download calls of a run are those of the non-skipped Url messages, in
\* stream order.
C2_OneDownloadPerUrl ==
    /\ \A k \in UrlIdx :
          ~Skipped(k) =>
              /\ Cardinality(EventsOf(k)) = 3
              /\ \E i \in EventsOf(k) :
                    /\ i + 2 \in EventsOf(k)
                    /\ log[i].ev = "start" /\ log[i].path = processed[k].path
                    /\ log[i + 1].ev = "download"
                    /\ log[i + 1].url = processed[k].msg.url
                    /\ log[i + 1].path = processed[k].path
                    /\ log[i + 1].job = processed[k].job
                    /\ instances[log[i + 1].inst].scheme = Family(processed[k].msg.url)
                    /\ instances[log[i + 1].inst].job = processed[k].job
                    /\ log[i + 2].ev = "success" /\ log[i + 2].path = processed[k].path
                    /\ log[i + 2].n = log[i + 1].n
    /\ \A i \in 1..Len(log) :
          log[i].ev \in {"start", "download", "success"} =>
              log[i].m \in UrlIdx /\ ~Skipped(log[i].m)
    /\ \A i, j \in 1..Len(log) :
          (i < j /\ log[i].ev = "download" /\ log[j].ev = "download") => log[i].m < log[j].m
    /\ Cardinality({ i \in 1..Len(log) : log[i].ev = "download" })
          = Cardinality({ k \in UrlIdx : ~processed[k].existed })

\* C2 witness: a run with a skipped message and two downloads, one of which
\* needed a retry that its success status reports
C2_Witness ==
    /\ \E k \in UrlIdx : Skipped(k)
    /\ \E i, j \in 1..Len(log) :
          /\ i < j
          /\ log[i].ev = "success" /\ log[i].n = 1
          /\ log[j].ev = "success" /\ log[j].n = 0

\* C3: a job that receives Version(v) with v # 1 ends in the structured
\* unsupported-version error, processes no message after it, and Version(1)
\* lets the job go on.
C3_UnsupportedVersion ==
    \A k \in 1..Len(processed) :
        (processed[k].msg.type = "Version" /\ processed[k].msg.val # 1) =>
            /\ \E r \in 1..Len(results) :
                  /\ results[r].job = processed[k].job
                  /\ results[r].outcome = "UnsupportedVersion"
            /\ \A n \in 1..Len(processed) : n > k => processed[n].job # processed[k].job

\* C4: when neither a configured rule nor a catalog pattern matches a URL,
\* add(url) reports the mismatch and returns normally, having processed no
\* message, created no directory and made no download.
C4_NoExtractorReturns ==
    \A r \in 1..Len(results) :
        ( /\ \A i \in 1..Len(overrides) : results[r].url \notin overrides[i].pattern
          /\ \A i \in 1..Len(catalog) : \A j \in 1..Len(catalog[i].patterns) :
                 results[r].url \notin catalog[i].patterns[j] ) =>
            /\ results[r].outcome = "returned"
            /\ \E i \in 1..Len(log) : log[i].job = results[r].job /\ log[i].ev = "mismatch"
            /\ \A k \in 1..Len(processed) : processed[k].job # results[r].job

\* the directory the specification gives the k-th message of the run
ExpectedDirectory(k) ==
    LET D == { d \in 1..(k - 1) : /\ processed[d].job = processed[k].job
                                  /\ processed[d].msg.type = "Directory" }
    IN  IF D = {} THEN BaseDirectory
        ELSE LET d == CHOOSE x \in D : \A y \in D : y <= x
             IN  BaseDirectory \o StrFormat(DirectoryFmt, processed[d].msg.kw)

\* C6: the destination path of a Url message lies under the directory of the
\* most recent Directory message of its job (the base directory when there is
\* none); a Directory message computes its directory from the base directory
\* alone, and a directory that already exists is no error.
C6_PathUnderDirectory ==
    /\ \A k \in UrlIdx : IsPrefix(ExpectedDirectory(k), processed[k].path)
    /\ \A k \in 1..Len(processed) :
          processed[k].msg.type = "Directory" =>
              /\ processed[k].path
                    = BaseDirectory \o StrFormat(DirectoryFmt, processed[k].msg.kw)
              /\ \E i \in EventsOf(k) : log[i].ev = "makedirs"

DownloadIdx == { i \in 1..Len(log) : log[i].ev = "download" }

\* C7: a job constructs at most one Downloader per scheme family; http, https
\* and scheme-less URLs are downloaded by the job's one "http" instance, which
\* is the instance that received the job's headers and cookies; no instance is
\* used by two jobs; a scheme's module is imported at most once per manager.
C7_DownloaderCache ==
    /\ \A a, b \in 1..Len(instances) :
          (instances[a].job = instances[b].job /\ instances[a].scheme = instances[b].scheme)
              => a = b
    /\ \A i \in 1..Len(log) :
          log[i].inst # 0 => /\ log[i].inst \in 1..Len(instances)
                             /\ instances[log[i].inst].job = log[i].job
    /\ \A i \in DownloadIdx :
          (Len(log[i].url) = 1 \/ log[i].url[1] \in {"http", "https"})
              => instances[log[i].inst].scheme = Http
    /\ \A h \in 1..Len(log), i \in DownloadIdx :
          ( /\ log[h].ev \in {"set_headers", "set_cookies"}
            /\ h < i
            /\ log[h].job = log[i].job
            /\ (Len(log[i].url) = 1 \/ log[i].url[1] \in {"http", "https"}) )
              => log[i].inst = log[h].inst
    /\ \A h \in 1..Len(log) :
          /\ log[h].ev = "set_headers" => instances[log[h].inst].headers = log[h].n
          /\ log[h].ev = "set_cookies" => instances[log[h].inst].cookies = log[h].n
    /\ \A a, b \in 1..Len(imports) : imports[a] = imports[b] => a = b

\* C7 witness: a job forwarded headers and later downloaded an https URL, and
\* a second job constructed a Downloader of its own for the same scheme
C7_Witness ==
    /\ \E h \in 1..Len(log), i \in DownloadIdx :
          /\ log[h].ev = "set_headers" /\ h < i /\ log[h].job = log[i].job
          /\ log[i].url[1] = "https"
    /\ \E a, b \in 1..Len(instances) :
          a # b /\ instances[a].scheme = instances[b].scheme

-----------------------------------------------------------------------------
(* Claims about the resolver *)

OverrideHits(url) == { i \in 1..Len(overrides) : url \in overrides[i].pattern }

CatalogHits(url) ==
    { i \in 1..Len(catalog) :
          \E j \in 1..Len(catalog[i].patterns) : url \in catalog[i].patterns[j] }

Least(S) == CHOOSE x \in S : \A y \in S : x <= y

\* C5: the result of a resolution is the category of the first configured rule
\* that matches, whatever the catalog holds; when no rule matches it is the
\* first catalog entry with a matching pattern, matched by the first such
\* pattern of its list; when nothing matches it is "no extractor".
C5_FirstMatch ==
    resolved.url # <<>> =>
        LET url == resolved.url
            O == OverrideHits(url)
            C == CatalogHits(url)
        IN  IF O # {}
            THEN /\ resolved.match.name = overrides[Least(O)].category
                 /\ resolved.match.rule = <<"config", Least(O)>>
            ELSE IF C # {}
            THEN LET e == catalog[Least(C)]
                     J == { j \in 1..Len(e.patterns) : url \in e.patterns[j] }
                 IN  /\ resolved.match.name = e.name
                     /\ resolved.match.rule = <<"catalog", Least(C), Least(J)>>
            ELSE resolved.match = NoMatch

\* C5 witness: two rules of different categories and a catalog entry of a
\* third name all match the resolved URL, the second rule by a pattern that
\* matches fewer URLs than the first
C5_Witness ==
    /\ resolved.url # <<>>
    /\ Cardinality(OverrideHits(resolved.url)) >= 2
    /\ CatalogHits(resolved.url) # {}
    /\ \E i, j \in OverrideHits(resolved.url) :
          /\ i < j
          /\ overrides[i].category # overrides[j].category
          /\ Cardinality(overrides[j].pattern) < Cardinality(overrides[i].pattern)
    /\ \A c \in CatalogHits(resolved.url) :
          catalog[c].name # resolved.match.name

-----------------------------------------------------------------------------
(* PathFormat.exists and PathFormat.finalize *)

\* the step is a call of exists() / finalize() on the current item
ExistsStep   == last'.op = "exists" /\ stage \in {"keywords", "part", "written", "direct"}
FinalizeStep == last'.op = "finalize" /\ stage' = "done" /\ stage # "done"

\* the archive already contains the item's key
Archived == ArchiveKey(PfCategory, pf.keywords) \in archive

\* C8 as stated: under the default skip policy, exists(archive) returns
\* True exactly when the item's real path exists on disk or the archive holds
\* the item's key, whether or not the extension is known, and False otherwise.
C8_ExistsIffOnDiskOrArchived ==
    [][ ExistsStep /\ pf.skip = "True"
        => /\ last'.res \in {"True", "False"}
           /\ (last'.res = "True") <=>
                  (PathExists(pf.realpath) \/ (last'.arg /\ Archived)) ]_vars

\* C8 amended: under the default skip policy, exists(archive) returns True
\* exactly when the extension is known and the real path exists on disk, or an
\* archive is given and holds the item's key, and False otherwise.
C8_ExistsIffKnownOnDiskOrArchived ==
    [][ ExistsStep /\ pf.skip = "True"
        => /\ last'.res \in {"True", "False"}
           /\ (last'.res = "True") <=>
                  (  (pf.has_extension /\ PathExists(pf.realpath))
                  \/ (last'.arg /\ Archived) ) ]_vars

\* exists() has answered False for an item whose extension is not known yet
\* although the real path is on disk
C8_Witness ==
    /\ last.op = "exists" /\ last.res = "False"
    /\ pf.skip = "True"
    /\ ~pf.has_extension
    /\ PathExists(pf.realpath)

\* C9: the skip policy decides what a detected skip does: by default exists()
\* returns True and the next item can be given; "abort" raises StopExtraction;
\* "exit" raises SystemExit and ends the process; with skipping disabled
\* exists() returns False whatever is on disk or in the archive; when no skip
\* is detected exists() returns False and raises nothing under every policy.
C9_SkipPolicy ==
    [][ ExistsStep
        => IF pf.skip = "False" \/ ~SkipDetected(pf, last'.arg)
           THEN last'.res = "False" /\ stage' = stage /\ pf' = pf
           ELSE /\ pf.skip = "True"  => last'.res = "True" /\ stage' = "done"
                /\ pf.skip = "abort" => last'.res = "StopExtraction" /\ stage' = "abort"
                /\ pf.skip = "exit"  => last'.res = "SystemExit" /\ stage' = "exit" ]_vars

\* a detected skip has aborted the job under the policy "abort"
C9_Witness ==
    /\ last.op = "exists" /\ last.res = "StopExtraction"
    /\ pf.skip = "abort"
    /\ stage = "abort"

\* a finalize() after a part-mode write with the extension settled
PartModeFinalize ==
    /\ FinalizeStep
    /\ stage = "written"
    /\ pf.has_extension
    /\ ~pf.delete

\* C10 as stated: after a part-mode write with the extension settled,
\* finalize() leaves at the real path a file with the content written to the
\* temp path and leaves no file at the temp path, whether the rename succeeds
\* or the copy fallback is taken.
C10_FinalizeMovesTemp ==
    [][ PartModeFinalize
        => /\ pf.temppath \in DOMAIN disk /\ disk[pf.temppath] = nitems
           /\ pf.realpath \in DOMAIN disk' /\ disk'[pf.realpath] = nitems
           /\ pf.temppath \notin DOMAIN disk' ]_vars

\* C10 amended: after a part-mode write with the extension settled, finalize()
\* leaves at the real path a file with the content written to the temp path
\* and, unless the temp path is the real path itself, no file at the temp path.
C10_FinalizeMovesTempUnlessSame ==
    [][ PartModeFinalize
        => /\ pf.temppath \in DOMAIN disk /\ disk[pf.temppath] = nitems
           /\ pf.realpath \in DOMAIN disk' /\ disk'[pf.realpath] = nitems
           /\ pf.temppath # pf.realpath => pf.temppath \notin DOMAIN disk' ]_vars

\* finalize() has taken the copy fallback for an item written in part mode
C10_Witness ==
    /\ last.op = "finalize" /\ last.arg = "copy"
    /\ stage = "done"
    /\ pf.has_extension
    /\ pf.realpath \in DOMAIN disk /\ disk[pf.realpath] = nitems
    /\ pf.temppath \notin DOMAIN disk

-----------------------------------------------------------------------------
(* PathFormat.finalize in discard mode *)

\* C11: when the discard flag is set, finalize() deletes the temp file
\* instead of finalizing: afterwards no file is at the temp path, nothing was
\* created or overwritten at the real path, and the flag is cleared; the flag
\* is set again only by a new discard, so the next item is finalized normally.
C11_DiscardOnce ==
    [][ /\ FinalizeStep /\ pf.delete
           => /\ pf.temppath \notin DOMAIN disk'
              /\ pf.realpath \in DOMAIN disk'
                    => pf.realpath \in DOMAIN disk /\ disk'[pf.realpath] = disk[pf.realpath]
              /\ \A q \in DOMAIN disk' : q \in DOMAIN disk /\ disk'[q] = disk[q]
              /\ ~pf'.delete
              /\ last'.arg = "discard"
        /\ FinalizeStep /\ ~pf.delete => last'.arg # "discard" /\ ~pf'.delete
        /\ pf'.delete /\ ~pf.delete => last'.op = "discard" ]_vars

\* a finalize() in discard mode has removed the temp file of the first item
\* and cleared the flag
C11_Witness ==
    /\ last.op = "finalize" /\ last.arg = "discard" /\ last.res = "None"
    /\ stage = "done"
    /\ nitems = 1
    /\ ~pf.delete
    /\ pf.temppath # <<>> /\ pf.temppath \notin DOMAIN disk

-----------------------------------------------------------------------------
(* util.py: DownloadArchive *)

MaxCalls == 4

\* the resolver of download.py is not in use
ResolverIdle ==
    /\ overrides = <<>>
    /\ catalog = <<>>
    /\ resolved = NotResolved

\* extractor.category of the extractor the archive was opened for
ArchiveCategory == "site"

\* the kwdicts passed to check and add; the first two render the same key
ArchiveKws ==
    { [name |-> <<"n1">>, extension |-> <<"jpg">>],
      [name |-> <<"n1">>, extension |-> <<"png">>],
      [name |-> <<"n2">>, extension |-> <<"jpg">>],
      [name |-> <<"n3">>, extension |-> <<"jpg">>] }

\* An INSERT without OR IGNORE into the table whose column is a PRIMARY KEY.
InsertPlain(table, key) ==
    IF key \in table THEN [table |-> table, error |-> "IntegrityError"]
    ELSE [table |-> table \cup {key}, error |-> "None"]

\* "INSERT OR IGNORE INTO archive VALUES (?)" on the table
\* "archive (entry PRIMARY KEY) WITHOUT ROWID"
InsertOrIgnore(table, key) ==
    [table |-> table \cup {key}, error |-> "None"]

\* "SELECT 1 FROM archive WHERE entry=? LIMIT 1" and cursor.fetchone()
SelectOne(table, key) == IF key \in table THEN "(1,)" ELSE "None"

\* DownloadArchive.add(kwdict)
ArchiveAdd(kwdict) ==
    /\ Len(calls) < MaxCalls
    /\ LET key == ArchiveKey(ArchiveCategory, kwdict)
           ins == InsertOrIgnore(archive, key)
       IN  /\ archive' = ins.table
           /\ calls' = Append(calls, [op |-> "add", kw |-> kwdict, res |-> ins.error])
    /\ UNCHANGED <<overrides, catalog, resolved, modules, imports, job, njobs,
                   instances, dirs, disk, log, processed, results>>
    /\ UNCHANGED <<pfvars, rp, urls, preds, input, output>>

\* DownloadArchive.check(kwdict)
ArchiveCheck(kwdict) ==
    /\ Len(calls) < MaxCalls
    /\ LET key == ArchiveKey(ArchiveCategory, kwdict)
       IN  calls' = Append(calls, [op |-> "check", kw |-> kwdict,
                                   res |-> SelectOne(archive, key)])
    /\ UNCHANGED <<overrides, catalog, resolved, dlvars>>
    /\ UNCHANGED <<pfvars, rp, urls, preds, input, output>>

\* DownloadArchive.__init__ on a path where no archive exists yet
InitArchive ==
    /\ ResolverIdle
    /\ DlIdle
    /\ PfIdle
    /\ UtilIdle

NextArchive ==
    \/ \E kw \in ArchiveKws : ArchiveAdd(kw)
    \/ \E kw \in ArchiveKws : ArchiveCheck(kw)

SpecArchive == InitArchive /\ [][NextArchive]_vars

\* the key an archive call was about
KeyOf(c) == <<ArchiveCategory>> \o c.kw.name

\* C12: the archive is a set of keys under any sequence of add and check
\* calls: check is true iff an earlier add rendered the same key, add never
\* raises, and the entries are exactly the keys added so far, each once.
C12_ArchiveIsSet ==
    /\ \A i \in 1..Len(calls) :
          /\ calls[i].op = "add" => calls[i].res = "None"
          /\ calls[i].op = "check" =>
                /\ calls[i].res \in {"(1,)", "None"}
                /\ (calls[i].res = "(1,)") <=>
                      \E j \in 1..(i - 1) :
                          calls[j].op = "add" /\ KeyOf(calls[j]) = KeyOf(calls[i])
    /\ archive = { KeyOf(calls[i]) : i \in { j \in 1..Len(calls) : calls[j].op = "add" } }

\* a key was added twice, through two different kwdicts, and then checked
C12_Witness ==
    /\ Len(calls) >= 3
    /\ calls[1].op = "add" /\ calls[2].op = "add" /\ calls[3].op = "check"
    /\ calls[1].kw # calls[2].kw
    /\ calls[1].res = "None" /\ calls[2].res = "None"
    /\ KeyOf(calls[1]) = KeyOf(calls[2]) /\ KeyOf(calls[2]) = KeyOf(calls[3])
    /\ calls[3].res = "(1,)"
    /\ Cardinality(archive) = 1

-----------------------------------------------------------------------------
(* util.py: the predicates *)

\* Python values and exceptions are written as their names
Truthy(v) == v \notin {"False", "0", "None", ""}

\* the interval lists a RangePredicate is built from; an interval is <<lower, upper>>
RangeLists ==
    { <<>>,
      << <<1, 2>> >>,
      << <<2, 2>> >>,
      << <<1, 1>>, <<3, 3>> >>,
      << <<2, 3>>, <<1, 1>> >>,
      << <<1, 3>>, <<2, 2>> >> }

\* the expressions a FilterPredicate is compiled from
FilterExprs == { "w > 1", "w > 1 or abort()", "1 // (w - 1)", "exit()" }

\* the items the predicates are called with: a URL and its keywords
PredItems ==
    { [url |-> <<"text:", "a">>, kwds |-> [w |-> 1]],
      [url |-> <<"http:", "a">>, kwds |-> [w |-> 1]],
      [url |-> <<"http:", "a">>, kwds |-> [w |-> 2]],
      [url |-> <<"http:", "b">>, kwds |-> [w |-> 2]],
      [url |-> <<"http:", "b">>, kwds |-> [h |-> 1]] }

RangeP     == [kind |-> "range", codeobj |-> ""]
UniqueP    == [kind |-> "unique", codeobj |-> ""]
FilterP(x) == [kind |-> "filter", codeobj |-> x]

\* the predicate lists build_predicate is given
PredLists ==
    { <<>>, <<RangeP>>, <<UniqueP>>, <<UniqueP, RangeP>>, <<RangeP, UniqueP>>,
      <<FilterP("w > 1"), RangeP>>, <<RangeP, FilterP("w > 1 or abort()")>>,
      <<FilterP("1 // (w - 1)"), UniqueP>>,
      <<UniqueP, FilterP("w > 1"), RangeP>> }
    \cup { <<FilterP(x)>> : x \in FilterExprs }

\* RangePredicate.__init__(ranges)
NewRangePredicate(ranges) ==
    [ ranges |-> ranges, index |-> 0,
      lower |-> IF ranges # <<>> THEN ranges[1][1] ELSE 0,
      upper |-> IF ranges # <<>> THEN ranges[Len(ranges)][2] ELSE 0 ]

\* nothing was raised; an exception is the sequence of its class name and, for
\* a FilterError, the class name of the exception it wraps
NoExc == <<>>

\* the outcome of calling one predicate: what it returned or raised, the
\* objects afterwards, and the members that were called
Outcome(res, raised, r, u, called) ==
    [res |-> res, raised |-> raised, rp |-> r, urls |-> u, called |-> called]

\* RangePredicate.__call__(url, kwds) on the object r
RangeCall(r, u) ==
    LET index == r.index + 1
        r2    == [r EXCEPT !.index = index]
    IN  IF index > r.upper THEN Outcome("", <<"StopExtraction">>, r2, u, <<>>)
        ELSE IF \E i \in 1..Len(r.ranges) :
                    r.ranges[i][1] <= index /\ index <= r.ranges[i][2]
        THEN Outcome("True", NoExc, r2, u, <<>>)
        ELSE Outcome("False", NoExc, r2, u, <<>>)

\* A unique predicate that records "text:" URLs like any other URL.
UniqueCallNoText(r, u, url) ==
    IF url \notin u THEN Outcome("True", NoExc, r, u \cup {url}, <<>>)
    ELSE Outcome("False", NoExc, r, u, <<>>)

\* UniquePredicate.__call__(url, kwds) on the set u
UniqueCall(r, u, url) ==
    IF IsPrefix(<<"text:">>, url) THEN Outcome("True", NoExc, r, u, <<>>)
    ELSE IF url \notin u THEN Outcome("True", NoExc, r, u \cup {url}, <<>>)
    ELSE Outcome("False", NoExc, r, u, <<>>)

\* exception.GalleryDLException and its subclasses
GalleryDLExceptions == {"StopExtraction", "FilterError"}

\* the subclasses of Exception that can occur; SystemExit is not among them
Exceptions == {"NameError", "ZeroDivisionError"} \cup GalleryDLExceptions

\* eval(codeobj, globalsdict, kwds): the value of the expression or the
\* exception its evaluation raises
Eval(codeobj, kwds) ==
    IF codeobj = "exit()" THEN [value |-> "", raised |-> <<"SystemExit">>]
    ELSE IF "w" \notin DOMAIN kwds THEN [value |-> "", raised |-> <<"NameError">>]
    ELSE IF codeobj = "w > 1"
         THEN [value |-> IF kwds.w > 1 THEN "True" ELSE "False", raised |-> NoExc]
    ELSE IF codeobj = "w > 1 or abort()"
         THEN IF kwds.w > 1 THEN [value |-> "True", raised |-> NoExc]
              ELSE [value |-> "", raised |-> <<"StopExtraction">>]
    ELSE \* "1 // (w - 1)"
         IF kwds.w = 1 THEN [value |-> "", raised |-> <<"ZeroDivisionError">>]
         ELSE [value |-> IF 1 \div (kwds.w - 1) = 1 THEN "1" ELSE "0", raised |-> NoExc]

\* A filter predicate that wraps every exception, the stop signal included.
FilterCallWrapAll(codeobj, kwds, r, u) ==
    LET e == Eval(codeobj, kwds)
    IN  IF e.raised = NoExc THEN Outcome(e.value, NoExc, r, u, <<>>)
        ELSE IF e.raised[1] \in Exceptions
        THEN Outcome("", <<"FilterError", e.raised[1]>>, r, u, <<>>)
        ELSE Outcome("", e.raised, r, u, <<>>)

\* FilterPredicate.__call__(url, kwds)
FilterCall(codeobj, kwds, r, u) ==
    LET e == Eval(codeobj, kwds)
    IN  IF e.raised = NoExc THEN Outcome(e.value, NoExc, r, u, <<>>)
        ELSE IF e.raised[1] \in GalleryDLExceptions
        THEN Outcome("", e.raised, r, u, <<>>)
        ELSE IF e.raised[1] \in Exceptions
        THEN Outcome("", <<"FilterError", e.raised[1]>>, r, u, <<>>)
        ELSE Outcome("", e.raised, r, u, <<>>)

\* pred(url, kwds) for one member of the predicate list
MemberCall(p, url, kwds, r, u) ==
    IF p.kind = "range" THEN RangeCall(r, u)
    ELSE IF p.kind = "unique" THEN UniqueCall(r, u, url)
    ELSE FilterCall(p.codeobj, kwds, r, u)

\* A chain that calls every member before it answers.
RECURSIVE ChainCallAll(_, _, _, _, _, _)
ChainCallAll(ps, i, url, kwds, r, u) ==
    IF i > Len(ps) THEN Outcome("True", NoExc, r, u, <<>>)
    ELSE LET o    == MemberCall(ps[i], url, kwds, r, u)
             rest == ChainCallAll(ps, i + 1, url, kwds, o.rp, o.urls)
         IN  IF o.raised # NoExc
             THEN [o EXCEPT !.called = <<i>>]
             ELSE IF ~Truthy(o.res)
             THEN [rest EXCEPT !.res = "False", !.raised = NoExc,
                               !.called = <<i>> \o rest.called]
             ELSE [rest EXCEPT !.called = <<i>> \o rest.called]

\* ChainPredicate.__call__(url, kwds): the members from the i-th on
RECURSIVE ChainCall(_, _, _, _, _, _)
ChainCall(ps, i, url, kwds, r, u) ==
    IF i > Len(ps) THEN Outcome("True", NoExc, r, u, <<>>)
    ELSE LET o == MemberCall(ps[i], url, kwds, r, u)
         IN  IF o.raised # NoExc THEN [o EXCEPT !.called = <<i>>]
             ELSE IF ~Truthy(o.res)
             THEN Outcome("False", NoExc, o.rp, o.urls, <<i>>)
             ELSE LET rest == ChainCall(ps, i + 1, url, kwds, o.rp, o.urls)
                  IN  [rest EXCEPT !.called = <<i>> \o rest.called]

\* build_predicate(predicates)(url, kwds)
BuiltCall(ps, url, kwds, r, u) ==
    IF ps = <<>> THEN Outcome("True", NoExc, r, u, <<>>)
    ELSE IF Len(ps) = 1
    THEN [MemberCall(ps[1], url, kwds, r, u) EXCEPT !.called = <<1>>]
    ELSE ChainCall(ps, 1, url, kwds, r, u)

\* one item is put to the predicate the job has built
Call(url, kwds) ==
    /\ Len(calls) < MaxCalls
    /\ LET o == BuiltCall(preds, url, kwds, rp, urls)
       IN  /\ rp' = o.rp
           /\ urls' = o.urls
           /\ calls' = Append(calls, [url |-> url, kwds |-> kwds, res |-> o.res,
                                      raised |-> o.raised, called |-> o.called])
    /\ UNCHANGED <<overrides, catalog, resolved, dlvars, pfvars>>
    /\ UNCHANGED <<preds, input, output>>

NoRange == [none |-> TRUE]

\* the predicate objects are constructed and build_predicate is applied
InitPredicate ==
    /\ ResolverIdle
    /\ DlIdle
    /\ PfIdle
    /\ preds \in PredLists
    /\ \E ranges \in RangeLists :
          rp = IF \E i \in 1..Len(preds) : preds[i].kind = "range"
               THEN NewRangePredicate(ranges) ELSE NoRange
    /\ urls = {}
    /\ calls = <<>>
    /\ input = NotRun
    /\ output = NotRun

NextPredicate ==
    \E item \in PredItems : Call(item.url, item.kwds)

SpecPredicate == InitPredicate /\ [][NextPredicate]_vars

-----------------------------------------------------------------------------
(* The predicates: what each call must answer *)

\* the largest upper bound of an interval list, 0 for the empty list
MaxUpper(ranges) ==
    IF ranges = <<>> THEN 0
    ELSE CHOOSE m \in { ranges[i][2] : i \in 1..Len(ranges) } :
            \A i \in 1..Len(ranges) : ranges[i][2] <= m

InSomeInterval(ranges, n) ==
    \E i \in 1..Len(ranges) : ranges[i][1] <= n /\ n <= ranges[i][2]

\* C13: a range predicate answers its i-th call by the running index i: true
\* iff i lies in one of the configured intervals, false when it lies in none
\* and is not above the largest upper bound, and stop-extraction exactly when
\* i is above the largest upper bound, whatever the order of the intervals.
C13_RangeByIndex ==
    preds = <<RangeP>> =>
        /\ rp.index = Len(calls)
        /\ \A i \in 1..Len(calls) :
              IF i > MaxUpper(rp.ranges)
              THEN calls[i].raised = <<"StopExtraction">>
              ELSE /\ calls[i].raised = NoExc
                   /\ calls[i].res \in {"True", "False"}
                   /\ (calls[i].res = "True") <=> InSomeInterval(rp.ranges, i)

IsText(url) == Len(url) > 0 /\ url[1] = "text:"

\* C14: a unique predicate answers true for a URL that is not a "text:" URL
\* iff the URL did not occur in an earlier call, and answers true for every
\* "text:" URL, which never enters the seen set.
C14_UniqueByUrl ==
    preds = <<UniqueP>> =>
        /\ \A i \in 1..Len(calls) :
              /\ calls[i].raised = NoExc
              /\ calls[i].res \in {"True", "False"}
              /\ (calls[i].res = "True") <=>
                    \/ IsText(calls[i].url)
                    \/ \A j \in 1..(i - 1) : calls[j].url # calls[i].url
        /\ \A x \in urls : ~IsText(x)

\* a concrete URL and a "text:" URL have both been put to the predicate twice
C14_Witness ==
    /\ preds = <<UniqueP>>
    /\ Len(calls) = 4
    /\ ~IsText(calls[1].url) /\ calls[2].url = calls[1].url
    /\ calls[1].res = "True" /\ calls[2].res = "False"
    /\ IsText(calls[3].url) /\ calls[4].url = calls[3].url
    /\ calls[3].res = "True" /\ calls[4].res = "True"
    /\ urls = {calls[1].url}

\* the call the step has made, and what member i alone answers to it in the
\* state before the step
Made       == calls'[Len(calls')]
Alone(i)   == MemberCall(preds[i], Made.url, Made.kwds, rp, urls)
Passes(i)  == Alone(i).raised = NoExc /\ Truthy(Alone(i).res)
Stoppers   == { i \in 1..Len(preds) : ~Passes(i) }
LastCalled == IF Stoppers = {} THEN Len(preds)
              ELSE CHOOSE k \in Stoppers : \A i \in Stoppers : k <= i

\* member i has been called by the step / has been left alone by it
Acted(i) ==
    /\ preds[i].kind = "range" => rp' = Alone(i).rp
    /\ preds[i].kind = "unique" => urls' = Alone(i).urls
Untouched(i) ==
    /\ preds[i].kind = "range" => rp' = rp
    /\ preds[i].kind = "unique" => urls' = urls

\* C19: a chain of two or more predicates calls its members in list order up
\* to the first one that returns false or raises, answers true iff every
\* member returns true, lets a raised signal through, and leaves the state of
\* the members after that one unchanged; the predicate built from an empty
\* list accepts every item, and the one built from a single predicate is it.
C19_ChainShortCircuit ==
    [][ calls' # calls =>
        IF preds = <<>>
        THEN /\ Made.res = "True" /\ Made.raised = NoExc /\ Made.called = <<>>
             /\ rp' = rp /\ urls' = urls
        ELSE IF Len(preds) = 1
        THEN /\ Made.res = Alone(1).res /\ Made.raised = Alone(1).raised
             /\ Acted(1)
        ELSE /\ Made.called = [i \in 1..LastCalled |-> i]
             /\ (Made.res = "True") <=> (\A i \in 1..Len(preds) : Passes(i))
             /\ Stoppers = {} => Made.raised = NoExc
             /\ Stoppers # {} =>
                   /\ Made.raised = Alone(LastCalled).raised
                   /\ Made.raised = NoExc => Made.res = "False"
             /\ \A i \in 1..LastCalled : Acted(i)
             /\ \A i \in (LastCalled + 1)..Len(preds) : Untouched(i) ]_vars

\* the second of three members has returned false: the range predicate after
\* it was not called and its index stays behind the number of calls
C19_Witness ==
    /\ Len(preds) = 3 /\ preds[3].kind = "range" /\ preds[1].kind = "unique"
    /\ calls # <<>>
    /\ Last(calls).called = <<1, 2>>
    /\ Last(calls).res = "False" /\ Last(calls).raised = NoExc
    /\ Last(calls).url \in urls
    /\ rp.index < Len(calls)

\* C20 as stated: a filter predicate call ends in one of three ways: the
\* value of the expression, stop-extraction exactly when the expression
\* invokes the abort helper, and a filter-error that wraps the cause for every
\* other failure of the evaluation.
C20_FilterThreeOutcomes ==
    \A x \in FilterExprs : preds = <<FilterP(x)>> =>
        \A i \in 1..Len(calls) :
            LET e == Eval(x, calls[i].kwds)
            IN  IF e.raised = NoExc
                THEN calls[i].raised = NoExc /\ calls[i].res = e.value
                ELSE IF e.raised = <<"StopExtraction">>
                THEN calls[i].raised = <<"StopExtraction">>
                ELSE calls[i].raised = <<"FilterError", e.raised[1]>>

\* C20 amended: the value of the expression, stop-extraction exactly when the
\* expression invokes the abort helper, a filter-error that wraps the cause
\* for every other failure that is an Exception, and the exception itself
\* when it is no Exception, as the SystemExit of exit() is.
C20_FilterOutcomes ==
    \A x \in FilterExprs : preds = <<FilterP(x)>> =>
        \A i \in 1..Len(calls) :
            LET e == Eval(x, calls[i].kwds)
            IN  IF e.raised = NoExc
                THEN calls[i].raised = NoExc /\ calls[i].res = e.value
                ELSE IF e.raised = <<"StopExtraction">>
                THEN calls[i].raised = <<"StopExtraction">>
                ELSE IF e.raised[1] \in {"NameError", "ZeroDivisionError"}
                THEN calls[i].raised = <<"FilterError", e.raised[1]>>
                ELSE calls[i].raised = e.raised /\ e.raised = <<"SystemExit">>

\* one filter has answered with a value, with a wrapped ZeroDivisionError
\* and with a wrapped NameError
C20_Witness ==
    /\ preds = <<FilterP("1 // (w - 1)")>>
    /\ \E i, j, k \in 1..Len(calls) :
          /\ calls[i].raised = NoExc /\ calls[i].res = "1"
          /\ calls[j].raised = <<"FilterError", "ZeroDivisionError">>
          /\ calls[k].raised = <<"FilterError", "NameError">>

-----------------------------------------------------------------------------
(* util.py: optimize_range *)

MaxVal == 4
MaxLen == 3

\* the closed intervals <<beg, end>> with beg <= end, and the lists of them
Intervals == { <<b, e>> : b \in 1..MaxVal, e \in 1..MaxVal } \ { <<b, e>> \in (1..MaxVal) \X (1..MaxVal) : b > e }
RECURSIVE ListsOf(_, _)
ListsOf(S, n) ==
    IF n = 0 THEN { <<>> }
    ELSE LET shorter == ListsOf(S, n - 1)
         IN  shorter \cup { Append(l, x) : l \in { s \in shorter : Len(s) = n - 1 }, x \in S }

\* the order of tuples: (a, b) < (c, d)
TupleLess(x, y) == x[1] < y[1] \/ (x[1] = y[1] /\ x[2] < y[2])

\* list.sort()
RECURSIVE Insert(_, _)
Insert(x, sorted) ==
    IF sorted = <<>> THEN <<x>>
    ELSE IF TupleLess(x, Head(sorted)) THEN <<x>> \o sorted
    ELSE <<Head(sorted)>> \o Insert(x, Tail(sorted))
RECURSIVE Sort(_)
Sort(l) == IF l = <<>> THEN <<>> ELSE Insert(Head(l), Sort(Tail(l)))

\* A merge loop that joins overlapping intervals but not adjacent ones.
RECURSIVE MergeOverlapping(_, _, _, _)
MergeOverlapping(rest, beg, end, result) ==
    IF rest = <<>> THEN Append(result, <<beg, end>>)
    ELSE LET lower == Head(rest)[1]
             upper == Head(rest)[2]
         IN  IF lower > end
             THEN MergeOverlapping(Tail(rest), lower, upper, Append(result, <<beg, end>>))
             ELSE IF upper > end
             THEN MergeOverlapping(Tail(rest), beg, upper, result)
             ELSE MergeOverlapping(Tail(rest), beg, end, result)

\* optimize_range, lines 62-70: the loop over the sorted intervals
RECURSIVE Merge(_, _, _, _)
Merge(rest, beg, end, result) ==
    IF rest = <<>> THEN Append(result, <<beg, end>>)
    ELSE LET lower == Head(rest)[1]
             upper == Head(rest)[2]
         IN  IF lower > end + 1
             THEN Merge(Tail(rest), lower, upper, Append(result, <<beg, end>>))
             ELSE IF upper > end
             THEN Merge(Tail(rest), beg, upper, result)
             ELSE Merge(Tail(rest), beg, end, result)

\* optimize_range(ranges)
OptimizeRange(ranges) ==
    IF Len(ranges) <= 1 THEN ranges
    ELSE LET sorted == Sort(ranges)
         IN  Merge(Tail(sorted), Head(sorted)[1], Head(sorted)[2], <<>>)

\* every variable but input and output stays as it is
OnlyFunction ==
    /\ UNCHANGED <<overrides, catalog, resolved, dlvars, pfvars>>
    /\ UNCHANGED <<rp, urls, preds, calls>>

\* an argument and a return value
Arg(x) == [arg |-> x]
Ret(x) == [ret |-> x]

\* the call optimize_range(input)
Optimize ==
    /\ output = NotRun
    /\ output' = Ret(OptimizeRange(input.arg))
    /\ UNCHANGED input
    /\ OnlyFunction

\* the call optimize_range(output) on the list the first call returned
OptimizeAgain ==
    /\ output # NotRun
    /\ input.arg # output.ret
    /\ input' = Arg(output.ret)
    /\ output' = Ret(OptimizeRange(output.ret))
    /\ OnlyFunction

InitOptimize ==
    /\ ResolverIdle
    /\ DlIdle
    /\ PfIdle
    /\ rp = NoRange /\ urls = {} /\ preds = <<>> /\ calls = <<>>
    /\ input \in { Arg(l) : l \in ListsOf(Intervals, MaxLen) }
    /\ output = NotRun

NextOptimize ==
    \/ Optimize
    \/ OptimizeAgain

SpecOptimize == InitOptimize /\ [][NextOptimize]_vars

\* the integers covered by an interval list
Covered(l) == { n \in 1..(MaxVal + 1) : \E i \in 1..Len(l) : l[i][1] <= n /\ n <= l[i][2] }

\* C15: optimize_range returns the minimal disjoint form of a list of closed
\* intervals: ascending, consecutive intervals at least one integer apart,
\* the same union as the input, and unchanged by a second optimize_range.
C15_MinimalDisjoint ==
    output # NotRun =>
        LET out == output.ret
        IN  /\ \A i \in 1..Len(out) : out[i][1] <= out[i][2]
            /\ \A i \in 1..(Len(out) - 1) : out[i + 1][1] > out[i][2] + 1
            /\ Covered(out) = Covered(input.arg)
            /\ OptimizeRange(out) = out

\* three intervals, given out of order, two of them adjacent, have become two
C15_Witness ==
    /\ output # NotRun
    /\ Len(input.arg) = 3 /\ Len(output.ret) = 2
    /\ TupleLess(input.arg[2], input.arg[1])
    /\ \E i, j \in 1..3 : input.arg[j][1] = input.arg[i][2] + 1

-----------------------------------------------------------------------------
(* util.py: parse_range; a range specification is a sequence of characters *)

MaxSpec == 5

\* sys.maxsize, kept within the integers of the checker
MaxSize == 2147483647

Digits    == {"1", "2"}
SpecChars == Digits \cup {" ", "-", ",", "x"}
DigitVal(c) == IF c = "1" THEN 1 ELSE 2

\* str.split(sep): the pieces between the separators, cur being the piece
\* under way
RECURSIVE Split(_, _, _)
Split(s, sep, cur) ==
    IF s = <<>> THEN <<cur>>
    ELSE IF Head(s) = sep THEN <<cur>> \o Split(Tail(s), sep, <<>>)
    ELSE Split(Tail(s), sep, Append(cur, Head(s)))

\* str.partition(sep): <<first, sep or "", last>>
Partition(s, sep) ==
    LET P == { i \in 1..Len(s) : s[i] = sep }
    IN  IF P = {} THEN <<s, <<>>, <<>>>>
        ELSE LET k == CHOOSE i \in P : \A j \in P : i <= j
             IN  <<SubSeq(s, 1, k - 1), <<sep>>, SubSeq(s, k + 1, Len(s))>>

\* str.strip()
RECURSIVE LStrip(_)
LStrip(s) == IF s # <<>> /\ Head(s) = " " THEN LStrip(Tail(s)) ELSE s
RECURSIVE RStrip(_)
RStrip(s) == IF s # <<>> /\ Last(s) = " " THEN RStrip(SubSeq(s, 1, Len(s) - 1)) ELSE s
Strip(s) == RStrip(LStrip(s))

\* the value of a sequence of digits, base 10
RECURSIVE Decimal(_)
Decimal(ds) ==
    IF ds = <<>> THEN 0
    ELSE 10 * Decimal(SubSeq(ds, 1, Len(ds) - 1)) + DigitVal(Last(ds))

AllDigits(s) == s # <<>> /\ \A i \in 1..Len(s) : s[i] \in Digits

\* int(s): blanks around the literal are ignored, a sign may precede the digits
IntOf(s) ==
    LET t == Strip(s)
    IN  IF AllDigits(t) THEN [error |-> "None", value |-> Decimal(t)]
        ELSE IF t # <<>> /\ Head(t) = "-" /\ AllDigits(Tail(t))
        THEN [error |-> "None", value |-> 0 - Decimal(Tail(t))]
        ELSE [error |-> "ValueError", value |-> 0]

\* parse_range, lines 34-43: the intervals one group adds to the list
ParseGroup(group) ==
    LET p     == Partition(group, "-")
        first == p[1]
        sep   == p[2]
        last_ == p[3]
    IN  IF sep = <<>>
        THEN IF IntOf(first).error # "None" THEN <<>>
             ELSE << <<IntOf(first).value, IntOf(first).value>> >>
        ELSE LET b == IF Strip(first) # <<>> THEN IntOf(first)
                      ELSE [error |-> "None", value |-> 1]
                 e == IF Strip(last_) # <<>> THEN IntOf(last_)
                      ELSE [error |-> "None", value |-> MaxSize]
             IN  IF b.error # "None" \/ e.error # "None" THEN <<>>
                 ELSE IF b.value <= e.value THEN << <<b.value, e.value>> >>
                 ELSE << <<e.value, b.value>> >>

RECURSIVE ParseGroups(_)
ParseGroups(groups) ==
    IF groups = <<>> THEN <<>>
    ELSE ParseGroup(Head(groups)) \o ParseGroups(Tail(groups))

\* parse_range(rangespec)
ParseRange(rangespec) == ParseGroups(Split(rangespec, ",", <<>>))

\* the call parse_range(input)
Parse ==
    /\ output = NotRun
    /\ output' = Ret(ParseRange(input.arg))
    /\ UNCHANGED input
    /\ OnlyFunction

InitParse ==
    /\ ResolverIdle
    /\ DlIdle
    /\ PfIdle
    /\ rp = NoRange /\ urls = {} /\ preds = <<>> /\ calls = <<>>
    /\ input \in { Arg(s) : s \in ListsOf(SpecChars, MaxSpec) }
    /\ output = NotRun

NextParse == Parse

SpecParse == InitParse /\ [][NextParse]_vars

\* what the grammar of a range specification gives for one group: "n" is
\* (n, n), "a-b" is (a, b) with 1 for a missing a and the sentinel for a
\* missing b, the numbers being unsigned; any other group gives nothing
Unsigned(s) == AllDigits(Strip(s))
Dashes(group) == Cardinality({ i \in 1..Len(group) : group[i] = "-" })
GroupByGrammar(group) ==
    LET p == Partition(group, "-")
    IN  IF Dashes(group) = 0
        THEN IF Unsigned(group)
             THEN << <<Decimal(Strip(group)), Decimal(Strip(group))>> >> ELSE <<>>
        ELSE IF Dashes(group) = 1
                /\ (Strip(p[1]) = <<>> \/ Unsigned(p[1]))
                /\ (Strip(p[3]) = <<>> \/ Unsigned(p[3]))
        THEN << << IF Strip(p[1]) = <<>> THEN 1 ELSE Decimal(Strip(p[1])),
                   IF Strip(p[3]) = <<>> THEN MaxSize ELSE Decimal(Strip(p[3])) >> >>
        ELSE <<>>

RECURSIVE ByGrammar(_)
ByGrammar(groups) ==
    IF groups = <<>> THEN <<>>
    ELSE GroupByGrammar(Head(groups)) \o ByGrammar(Tail(groups))

\* C16: parse_range maps the comma-separated groups of a specification to
\* closed intervals in group order: n gives (n, n), a-b gives (a, b), a
\* missing lower bound is 1, a missing upper bound is the sentinel, blanks
\* are ignored, every malformed group is dropped, and every interval
\* returned has lower <= upper.
C16_ParseByGrammar ==
    output # NotRun =>
        /\ output.ret = ByGrammar(Split(input.arg, ",", <<>>))
        /\ \A i \in 1..Len(output.ret) : output.ret[i][1] <= output.ret[i][2]

-----------------------------------------------------------------------------
(* util.py: bencode and bdecode; an alphabet is a sequence of distinct characters *)

MaxNum == 30
MaxStr == 3

Alphabets ==
    { <<"0", "1">>, <<"a", "b", "c">>,
      <<"0", "1", "2", "3", "4", "5", "6", "7", "8", "9">> }

\* the set of the characters of an alphabet
CharsOf(alphabet) == { alphabet[i] : i \in 1..Len(alphabet) }

\* alphabet.index(c), counted from 0
Index(alphabet, c) ==
    (CHOOSE i \in 1..Len(alphabet) :
        alphabet[i] = c /\ \A j \in 1..(i - 1) : alphabet[j] # c) - 1

\* An encoder that writes the lowest digit first.
RECURSIVE BencodeLowFirst(_, _)
BencodeLowFirst(num, alphabet) ==
    IF num = 0 THEN <<>>
    ELSE <<alphabet[(num % Len(alphabet)) + 1]>>
         \o BencodeLowFirst(num \div Len(alphabet), alphabet)

\* bencode(num, alphabet)
RECURSIVE Bencode(_, _)
Bencode(num, alphabet) ==
    IF num = 0 THEN <<>>
    ELSE Bencode(num \div Len(alphabet), alphabet)
         \o <<alphabet[(num % Len(alphabet)) + 1]>>

\* bdecode(data, alphabet)
RECURSIVE Bdecode(_, _)
Bdecode(data, alphabet) ==
    IF data = <<>> THEN 0
    ELSE Bdecode(SubSeq(data, 1, Len(data) - 1), alphabet) * Len(alphabet)
         + Index(alphabet, Last(data))

\* the call bencode(bdecode(s, alphabet), alphabet)
DecodeEncode ==
    /\ output = NotRun
    /\ "data" \in DOMAIN input.arg
    /\ output' = Ret(Bencode(Bdecode(input.arg.data, input.arg.alphabet),
                             input.arg.alphabet))
    /\ UNCHANGED input
    /\ OnlyFunction

\* the call bdecode(bencode(n, alphabet), alphabet)
EncodeDecode ==
    /\ output = NotRun
    /\ "num" \in DOMAIN input.arg
    /\ output' = Ret(Bdecode(Bencode(input.arg.num, input.arg.alphabet),
                             input.arg.alphabet))
    /\ UNCHANGED input
    /\ OnlyFunction

InitBencode ==
    /\ ResolverIdle
    /\ DlIdle
    /\ PfIdle
    /\ rp = NoRange /\ urls = {} /\ preds = <<>> /\ calls = <<>>
    /\ \E alphabet \in Alphabets :
          \/ \E s \in ListsOf(CharsOf(alphabet), MaxStr) :
                input = Arg([alphabet |-> alphabet, data |-> s])
          \/ \E n \in 0..MaxNum :
                input = Arg([alphabet |-> alphabet, num |-> n])
    /\ output = NotRun

NextBencode ==
    \/ DecodeEncode
    \/ EncodeDecode

SpecBencode == InitBencode /\ [][NextBencode]_vars

\* C17 as stated: bencode(bdecode(s)) = s for every string over the
\* alphabet, and bdecode(bencode(n)) = n for every n >= 0.
C17_RoundTrip ==
    output # NotRun =>
        /\ "data" \in DOMAIN input.arg => output.ret = input.arg.data
        /\ "num" \in DOMAIN input.arg => output.ret = input.arg.num

\* C17 amended: bencode(bdecode(s)) = s for every string over the alphabet
\* that does not begin with the first character of the alphabet, a string
\* that does comes back without its leading first characters, and
\* bdecode(bencode(n)) = n for every n >= 0.
RECURSIVE DropLeading(_, _)
DropLeading(s, c) == IF s # <<>> /\ Head(s) = c THEN DropLeading(Tail(s), c) ELSE s
C17_RoundTripCanonical ==
    output # NotRun =>
        /\ "data" \in DOMAIN input.arg =>
              /\ output.ret = DropLeading(input.arg.data, input.arg.alphabet[1])
              /\ (input.arg.data = <<>> \/ input.arg.data[1] # input.arg.alphabet[1])
                    => output.ret = input.arg.data
        /\ "num" \in DOMAIN input.arg => output.ret = input.arg.num

\* a string of three characters that come back as they were
C17_Witness ==
    /\ output # NotRun
    /\ "data" \in DOMAIN input.arg
    /\ Len(input.arg.data) = 3
    /\ input.arg.data[1] # input.arg.data[2] /\ input.arg.data[2] # input.arg.data[3]
    /\ output.ret = input.arg.data

-----------------------------------------------------------------------------
(* util.py: Formatter; a Python value is a record with its type, a str     *)
(* carries its characters, and a raised exception is a value of its own    *)

None       == [type |-> "NoneType"]
Str(s)     == [type |-> "str", s |-> s]
Raise(exc) == [type |-> "exception", name |-> exc]

\* bool(value)
IsTrue(v) == v.type = "str" /\ v.s # <<>>

\* str(value)
StrOf(v) == IF v.type = "NoneType" THEN <<"N", "o", "n", "e">> ELSE v.s

\* repr(value) and ascii(value); the characters of the model are ASCII and
\* hold no quote
ReprOf(v) == IF v.type = "NoneType" THEN <<"N", "o", "n", "e">> ELSE <<"'">> \o v.s \o <<"'">>

\* the two cases of a character; "%20" stands for the three characters of an
\* escaped space
LowerChar(c) == IF c = "A" THEN "a" ELSE IF c = "B" THEN "b" ELSE c
UpperChar(c) == IF c = "a" THEN "A" ELSE IF c = "b" THEN "B" ELSE c

\* str.lower, str.upper, str.capitalize
StrLower(s)      == [i \in 1..Len(s) |-> LowerChar(s[i])]
StrUpper(s)      == [i \in 1..Len(s) |-> UpperChar(s[i])]
StrCapitalize(s) == [i \in 1..Len(s) |-> IF i = 1 THEN UpperChar(s[i]) ELSE LowerChar(s[i])]

\* sep.join(words)
RECURSIVE JoinWords(_, _)
JoinWords(words, sep) ==
    IF words = <<>> THEN <<>>
    ELSE IF Len(words) = 1 THEN Head(words)
    ELSE Head(words) \o <<sep>> \o JoinWords(Tail(words), sep)

\* string.capwords(s): the words between runs of blanks, capitalized and
\* joined by one blank
Capwords(s) ==
    LET words == SelectSeq(Split(s, " ", <<>>), LAMBDA w : w # <<>>)
    IN  JoinWords([i \in 1..Len(words) |-> StrCapitalize(words[i])], " ")

\* urllib.parse.unquote
Unquote(s) == [i \in 1..Len(s) |-> IF s[i] = "%20" THEN " " ELSE s[i]]

\* Formatter.conversions[conversion](obj); "" is no conversion
Convert(conversion, obj) ==
    IF conversion = "" THEN obj
    ELSE IF conversion = "s" THEN Str(StrOf(obj))
    ELSE IF conversion \in {"r", "a"} THEN Str(ReprOf(obj))
    ELSE IF obj.type # "str"
         THEN Raise(IF conversion = "C" THEN "AttributeError" ELSE "TypeError")
    ELSE IF conversion = "l" THEN Str(StrLower(obj.s))
    ELSE IF conversion = "u" THEN Str(StrUpper(obj.s))
    ELSE IF conversion = "c" THEN Str(StrCapitalize(obj.s))
    ELSE IF conversion = "C" THEN Str(Capwords(obj.s))
    ELSE Str(Unquote(obj.s))

\* s.rjust(width)
RECURSIVE RJust(_, _)
RJust(s, width) == IF Len(s) >= width THEN s ELSE RJust(<<" ">> \o s, width)

\* format(value, format_spec) for the specs "" and ">w"
Format(value, format_spec) ==
    IF format_spec = <<>> THEN Str(StrOf(value))
    ELSE IF value.type # "str" THEN Raise("TypeError")
    ELSE Str(RJust(value.s, DigitVal(format_spec[2])))

\* str.split(sep, maxsplit)
RECURSIVE SplitMax(_, _, _, _)
SplitMax(s, sep, maxsplit, cur) ==
    IF s = <<>> THEN <<cur>>
    ELSE IF maxsplit = 0 THEN <<cur \o s>>
    ELSE IF Head(s) = sep THEN <<cur>> \o SplitMax(Tail(s), sep, maxsplit - 1, <<>>)
    ELSE SplitMax(Tail(s), sep, maxsplit, Append(cur, Head(s)))

\* Formatter.format_field
FormatField(value, format_spec) ==
    IF format_spec[1] = "?"
    THEN IF ~IsTrue(value) THEN Str(<<>>)
         ELSE LET parts == SplitMax(format_spec, "/", 2, <<>>)
              IN  IF Len(parts) # 3 THEN Raise("ValueError")
                  ELSE LET inner == Format(value, parts[3])
                       IN  IF inner.type = "exception" THEN inner
                           ELSE Str(Tail(parts[1]) \o inner.s \o parts[2])
    ELSE Format(value, format_spec)

\* Formatter.get_field; rest is <<>> or one index into the value
GetField(field_name, kwargs, kwdefault) ==
    IF field_name.first \notin DOMAIN kwargs THEN kwdefault
    ELSE LET obj == kwargs[field_name.first]
         IN  IF field_name.rest = <<>> THEN obj
             ELSE IF obj.type # "str" THEN Raise("TypeError")
             ELSE IF Len(obj.s) < field_name.rest[1] + 1 THEN Raise("IndexError")
             ELSE Str(<<obj.s[field_name.rest[1] + 1]>>)

\* Formatter.vformat: the body of the loop for one replacement field. The
\* format specs of the model hold no replacement field, format_map returns
\* them as they are.
VformatField(piece, kwargs, kwdefault) ==
    LET obj == GetField(piece.field_name, kwargs, kwdefault)
    IN  IF obj.type = "exception" THEN obj
        ELSE LET conv == Convert(piece.conversion, obj)
             IN  IF conv.type = "exception" THEN conv
                 ELSE IF piece.format_spec # <<>>
                      THEN FormatField(conv, piece.format_spec)
                      ELSE Str(StrOf(conv))

\* Formatter.vformat over the tuples of _string.formatter_parser; every tuple
\* of the model has a field
RECURSIVE FormatterVformat(_, _, _)
FormatterVformat(format_string, kwargs, kwdefault) ==
    IF format_string = <<>> THEN Str(<<>>)
    ELSE LET piece == Head(format_string)
             obj   == VformatField(piece, kwargs, kwdefault)
             rest  == FormatterVformat(Tail(format_string), kwargs, kwdefault)
         IN  IF obj.type = "exception" THEN obj
             ELSE IF rest.type = "exception" THEN rest
             ELSE Str(piece.literal_text \o obj.s \o rest.s)

\* the defaults a Formatter is built with, the keyword mappings and the
\* replacement fields
FmtDefaults    == { None, Str(<<>>), Str(<<"n">>) }
FmtKwargs      == { <<>>,
                    [title |-> Str(<<"a", " ", " ", "b", "B", "%20", "A">>)],
                    [title |-> Str(<<>>)],
                    [title |-> None] }
FmtConversions == {"", "l", "u", "c", "C", "U", "s", "r", "a"}
FmtSpecs       == { <<>>, <<">", "2">>, <<"?", "x", "/", "y", "/">>,
                    <<"?", "x", "/", "y", "/", ">", "2">> }
FmtFieldNames  == { [first |-> "title", rest |-> <<>>],
                    [first |-> "title", rest |-> <<0>>] }
FmtFields ==
    [literal_text : {<<>>, <<"f", "-">>}, field_name : FmtFieldNames,
     format_spec : FmtSpecs, conversion : FmtConversions]

\* the call Formatter(default).vformat(format_string, kwargs)
Render ==
    /\ output = NotRun
    /\ output' = LET res == FormatterVformat(input.arg.format_string,
                                             input.arg.kwargs, input.arg.default)
                 IN  IF res.type = "exception" THEN [exc |-> res.name]
                     ELSE Ret(res.s)
    /\ UNCHANGED input
    /\ OnlyFunction

InitFormat ==
    /\ ResolverIdle
    /\ DlIdle
    /\ PfIdle
    /\ rp = NoRange /\ urls = {} /\ preds = <<>> /\ calls = <<>>
    /\ \E d \in FmtDefaults, kw \in FmtKwargs, f \in FmtFields :
          input = Arg([default |-> d, kwargs |-> kw, format_string |-> <<f>>])
    /\ output = NotRun

NextFormat == Render

SpecFormat == InitFormat /\ [][NextFormat]_vars

\* the field of the template names a key that the keyword mapping lacks
KeyMissing == input.arg.format_string[1].field_name.first \notin DOMAIN input.arg.kwargs

\* C18: rendering a field whose top-level key is absent from the keyword
\* mapping returns a string, whatever the conversion and the format spec.
C18_MissingKeyRenders ==
    (output # NotRun /\ KeyMissing) => "ret" \in DOMAIN output

-----------------------------------------------------------------------------
(* util.py: DownloadArchive, two archives opened on the same path for       *)
(* extractors of different categories; a category is a sequence of          *)
(* characters, as are the values of a kwdict                                *)

MaxKeyCalls == 2

\* extractor.category, extractor.config("archive-format", archive_fmt) and
\* the kwdicts passed to check and add
KeyCategories == { <<"a">>, <<"a", "b">>, <<"b">> }
KeyFormats    == { <<F("id")>>, <<L("b"), F("id")>> }
KeyKws        == { [id |-> <<"c">>], [id |-> <<"b", "c">>], [id |-> <<"1">>] }

\* DownloadArchive.__init__: self.keygen, applied to a kwdict
Keygen(extractor, kwdict) ==
    extractor.category \o StrFormat(extractor.archive_fmt, kwdict)

\* DownloadArchive.add(kwdict) of the archive opened for input.arg[a]
KeyAdd(a, kwdict) ==
    /\ Len(calls) < MaxKeyCalls
    /\ LET key == Keygen(input.arg[a], kwdict)
           ins == InsertOrIgnore(archive, key)
       IN  /\ archive' = ins.table
           /\ calls' = Append(calls, [op |-> "add", category |-> input.arg[a].category,
                                      kw |-> kwdict, key |-> key, res |-> ins.error])
    /\ UNCHANGED <<overrides, catalog, resolved, modules, imports, job, njobs,
                   instances, dirs, disk, log, processed, results>>
    /\ UNCHANGED <<pfvars, rp, urls, preds, input, output>>

\* DownloadArchive.check(kwdict) of the archive opened for input.arg[a]
KeyCheck(a, kwdict) ==
    /\ Len(calls) < MaxKeyCalls
    /\ LET key == Keygen(input.arg[a], kwdict)
       IN  calls' = Append(calls, [op |-> "check", category |-> input.arg[a].category,
                                   kw |-> kwdict, key |-> key,
                                   res |-> SelectOne(archive, key)])
    /\ UNCHANGED <<overrides, catalog, resolved, dlvars>>
    /\ UNCHANGED <<pfvars, rp, urls, preds, input, output>>

\* DownloadArchive.__init__, twice, on a path where no archive exists yet
InitKeys ==
    /\ ResolverIdle
    /\ DlIdle
    /\ PfIdle
    /\ rp = NoRange /\ urls = {} /\ preds = <<>> /\ calls = <<>>
    /\ \E c1 \in KeyCategories, c2 \in KeyCategories, f1 \in KeyFormats, f2 \in KeyFormats :
          /\ c1 # c2
          /\ input = Arg(<< [category |-> c1, archive_fmt |-> f1],
                         [category |-> c2, archive_fmt |-> f2] >>)
    /\ output = NotRun

NextKeys ==
    \/ \E a \in 1..2, kw \in KeyKws : KeyAdd(a, kw)
    \/ \E a \in 1..2, kw \in KeyKws : KeyCheck(a, kw)

SpecKeys == InitKeys /\ [][NextKeys]_vars

\* C21: calls made under different categories never render the same key, and
\* check() reports an item as present only if it was added under the
\* category of the checking archive.
C21_CategoriesDoNotCollide ==
    \A i \in 1..Len(calls) :
        /\ \A j \in 1..Len(calls) :
              calls[i].category # calls[j].category => calls[i].key # calls[j].key
        /\ (calls[i].op = "check" /\ calls[i].res = "(1,)") =>
              \E j \in 1..(i - 1) :
                  calls[j].op = "add" /\ calls[j].category = calls[i].category

-----------------------------------------------------------------------------
(* util.py: PathFormat.exists, the name of a skipped item *)

\* a file name or path ends in the placeholder extension or in a "."
EndsInMarker(s) == s # <<>> /\ Last(s) \in {"part", "."}

\* C22: under the default skip policy, when exists() detects a skip while
\* the extension is not known, the filename, the logical path and the real
\* path afterwards end neither in the placeholder extension nor in "."; when
\* the extension was known, exists() changes no path field.
C22_SkipNormalizesName ==
    [][ ExistsStep /\ pf.skip = "True" /\ last'.res = "True"
        => IF ~pf.has_extension
           THEN /\ ~EndsInMarker(pf'.filename)
                /\ ~EndsInMarker(pf'.path)
                /\ ~EndsInMarker(pf'.realpath)
           ELSE /\ pf'.filename = pf.filename
                /\ pf'.path = pf.path
                /\ pf'.realpath = pf.realpath
                /\ pf'.temppath = pf.temppath ]_vars

====
